---- MODULE Spec2Model ----
(***************************************************************************)
(* Model of the open-xiaoai MiGPT bridge: the SpeakerManager controller    *)
(* (speaker.ts), the OpenXiaoAIEngine event handlers, and the two          *)
(* removeThinkingTags text sanitizers.                                     *)
(*                                                                         *)
(* Strings are sequences of one-character strings, so that the regular     *)
(* expressions and the substring tests of the source are computed          *)
(* character by character.                                                 *)
(***************************************************************************)
EXTENDS Integers, Sequences, FiniteSets, TLC

VARIABLES
    status,   \* SpeakerManager.status
    pc,       \* per caller: "idle", or where its async method is suspended
    call,     \* per caller: the method in progress and its arguments
    inflight, \* per caller: the command handed to RustServer.run_shell
    inbox,    \* messages handed to the engine's onMessage, not yet consumed
    engine,   \* OpenXiaoAIEngine.start: "constructed", "starting", "serving"
    callbacks,\* global RUST_CALLBACKS: the handlers registered with the bridge
    bridge,   \* RustServer: how often start() was called, whether it runs
    last,     \* observation of the step just taken
    san       \* the sanitizer under study: input, last output, applications

vars ==
    <<status, pc, call, inflight, inbox, engine, callbacks, bridge, last, san>>

\* everything but the sanitizer under study
ctl == <<status, pc, call, inflight, inbox, engine, callbacks, bridge, last>>

----------------------------------------------------------------------------
(* JavaScript strings and String.prototype methods                         *)

OPEN == <<"<", "t", "h", "i", "n", "k", ">">>

CLOSE == <<"<", "/", "t", "h", "i", "n", "k", ">">>

\* true iff pattern p occurs in t starting at index i (1-based)
StartsWithAt(t, i, p) ==
    /\ i >= 1
    /\ i + Len(p) - 1 <= Len(t)
    /\ SubSeq(t, i, i + Len(p) - 1) = p

\* String.prototype.includes
Includes(t, p) == \E i \in 1..(Len(t) + 1) : StartsWithAt(t, i, p)

\* the regex class \s restricted to the alphabet of the model
IsSpace(ch) == ch \in {" ", "\n"}

\* index of the first occurrence of p at or after index from, 0 if none
IndexFrom(t, p, from) ==
    LET hits == {j \in from..Len(t) : StartsWithAt(t, j, p)}
    IN  IF hits = {} THEN 0 ELSE CHOOSE j \in hits : \A k \in hits : j <= k

\* first index >= from holding a non-space character (Len(t)+1 if none)
SkipSpace(t, from) ==
    LET stops == {j \in from..Len(t) : ~IsSpace(t[j])}
    IN  IF stops = {} THEN Len(t) + 1
        ELSE CHOOSE j \in stops : \A k \in stops : j <= k

----------------------------------------------------------------------------
(* removeThinkingTags                                                      *)

\* text.replace(/<think>|<\/think>/g, "")
\* end (exclusive) of the match of /<think>|<\/think>/ at i, 0 if none
TagEnd(t, i) ==
    IF StartsWithAt(t, i, OPEN) THEN i + Len(OPEN)
    ELSE IF StartsWithAt(t, i, CLOSE) THEN i + Len(CLOSE)
    ELSE 0

\* the global replace scans from i: it copies the text up to the first
\* match, drops the match and goes on behind it
RECURSIVE StripTagsFrom(_, _)
StripTagsFrom(t, i) ==
    LET hits == {j \in i..Len(t) : TagEnd(t, j) # 0}
        j == CHOOSE x \in hits : \A y \in hits : x <= y
    IN  IF hits = {} THEN SubSeq(t, i, Len(t))
        ELSE SubSeq(t, i, j - 1) \o StripTagsFrom(t, TagEnd(t, j))

StripTags(t) == StripTagsFrom(t, 1)

\* end (exclusive) of the match of /<think>[\s\S]*?<\/think>/ at i, 0 if none
BlockEnd(t, i) ==
    IF ~StartsWithAt(t, i, OPEN) THEN 0
    ELSE LET j == IndexFrom(t, CLOSE, i + Len(OPEN))
         IN  IF j = 0 THEN 0 ELSE j + Len(CLOSE)

\* result.replace(/<think>[\s\S]*?<\/think>/g, "")
RECURSIVE StripBlocksFrom(_, _)
StripBlocksFrom(t, i) ==
    LET hits == {j \in i..Len(t) : BlockEnd(t, j) # 0}
        j == CHOOSE x \in hits : \A y \in hits : x <= y
    IN  IF hits = {} THEN SubSeq(t, i, Len(t))
        ELSE SubSeq(t, i, j - 1) \o StripBlocksFrom(t, BlockEnd(t, j))

StripBlocks(t) == StripBlocksFrom(t, 1)

\* end (exclusive) of the match of /<think>\s*\n([\s\S]*?)\n\s*<\/think>/ at i,
\* 0 if none.  \s* is greedy: the last line break of the space run after the
\* opening tag is tried first; the group is lazy: the first line break that is
\* followed by spaces and the closing tag ends the match.
LineBlockEnd(t, i) ==
    IF ~StartsWithAt(t, i, OPEN) THEN 0
    ELSE LET a == i + Len(OPEN)
             w == SkipSpace(t, a)
             firsts == {q \in a..(w - 1) : t[q] = "\n"}
             seconds(q) == {p \in (q + 1)..Len(t) :
                              /\ t[p] = "\n"
                              /\ StartsWithAt(t, SkipSpace(t, p + 1), CLOSE)}
             ok == {q \in firsts : seconds(q) # {}}
         IN  IF ok = {} THEN 0
             ELSE LET q == CHOOSE x \in ok : \A y \in ok : y <= x
                      p == CHOOSE x \in seconds(q) : \A y \in seconds(q) : x <= y
                  IN  SkipSpace(t, p + 1) + Len(CLOSE)

\* result.replace(/<think>\s*\n([\s\S]*?)\n\s*<\/think>/g, "")
RECURSIVE StripLineBlocksFrom(_, _)
StripLineBlocksFrom(t, i) ==
    LET hits == {j \in i..Len(t) : LineBlockEnd(t, j) # 0}
        j == CHOOSE x \in hits : \A y \in hits : x <= y
    IN  IF hits = {} THEN SubSeq(t, i, Len(t))
        ELSE SubSeq(t, i, j - 1)
             \o StripLineBlocksFrom(t, LineBlockEnd(t, j))

StripLineBlocks(t) == StripLineBlocksFrom(t, 1)

\* speaker.ts removeThinkingTags (module scope of the speaker)
removeThinkingTags(text) ==
    IF Len(text) = 0 THEN text
    ELSE StripBlocks(StripTags(text))

\* removeThinkingTags of the engine module
engineRemoveThinkingTags(text) ==
    StripBlocks(StripLineBlocks(StripTags(text)))

----------------------------------------------------------------------------
(* JavaScript values: undefined, booleans, strings and objects are kept    *)
(* apart by the field that carries them                                    *)

Undefined == [undefined |-> TRUE]

Bool(b) == [bool |-> b]

Str(s) == [str |-> s]

Obj(o) == [obj |-> o]

\* String.prototype.toLowerCase on the letters of the model's alphabet
LowerChar(ch) ==
    CASE ch = "A" -> "a"
      [] ch = "M" -> "m"
      [] OTHER -> ch

ToLowerCase(s) == [i \in 1..Len(s) |-> LowerChar(s[i])]

\* String.prototype.trim
Trim(s) ==
    LET keep == {j \in 1..Len(s) : ~IsSpace(s[j])}
    IN  IF keep = {} THEN <<>>
        ELSE SubSeq(s, CHOOSE j \in keep : \A k \in keep : j <= k,
                       CHOOSE j \in keep : \A k \in keep : k <= j)

\* String.prototype.split(" ")
RECURSIVE SplitFrom(_, _, _)
SplitFrom(s, i, cur) ==
    IF i > Len(s) THEN <<cur>>
    ELSE IF s[i] = " " THEN <<cur>> \o SplitFrom(s, i + 1, <<>>)
    ELSE SplitFrom(s, i + 1, Append(cur, s[i]))

Split(s) == SplitFrom(s, 1, <<>>)

----------------------------------------------------------------------------
(* JavaScript numbers: IEEE 754 doubles, as sig * 2^exp with sig a natural  *)
(* number written in binary digits, least significant first                *)

RECURSIVE NatBits(_)
NatBits(n) == IF n = 0 THEN <<>> ELSE <<n % 2>> \o NatBits(n \div 2)

RECURSIVE AddBits(_, _, _)
AddBits(a, b, carry) ==
    IF a = <<>> /\ b = <<>> THEN (IF carry = 1 THEN <<1>> ELSE <<>>)
    ELSE LET x == IF a = <<>> THEN 0 ELSE Head(a)
             y == IF b = <<>> THEN 0 ELSE Head(b)
         IN  <<(x + y + carry) % 2>>
             \o AddBits(IF a = <<>> THEN a ELSE Tail(a),
                        IF b = <<>> THEN b ELSE Tail(b),
                        (x + y + carry) \div 2)

RECURSIVE MulBits(_, _)
MulBits(a, b) ==
    IF a = <<>> \/ b = <<>> THEN <<>>
    ELSE LET rest == MulBits(Tail(a), b)
         IN  AddBits(IF Head(a) = 1 THEN b ELSE <<>>,
                     IF rest = <<>> THEN rest ELSE <<0>> \o rest, 0)

\* a < b for binary numbers without leading zeros
NatLess(a, b) ==
    IF Len(a) # Len(b) THEN Len(a) < Len(b)
    ELSE \E i \in 1..Len(a) :
            /\ a[i] < b[i]
            /\ \A j \in (i + 1)..Len(a) : a[j] = b[j]

\* binary digits a double keeps
PRECISION == 53

\* the double nearest to bits * 2^exp, ties to the even significand
RoundToDouble(bits, exp) ==
    IF Len(bits) <= PRECISION THEN [sig |-> bits, exp |-> exp]
    ELSE LET d == Len(bits) - PRECISION
             kept == SubSeq(bits, d + 1, Len(bits))
             up == /\ bits[d] = 1
                   /\ \/ \E i \in 1..(d - 1) : bits[i] = 1
                      \/ kept[1] = 1
             r == IF up THEN AddBits(kept, <<1>>, 0) ELSE kept
         IN  IF Len(r) > PRECISION
             THEN [sig |-> Tail(r), exp |-> exp + d + 1]
             ELSE [sig |-> r, exp |-> exp + d]

\* one writing for each value: an odd significand, or zero
RECURSIVE Canonical(_)
Canonical(x) ==
    IF x.sig = <<>> THEN [sig |-> <<>>, exp |-> 0]
    ELSE IF Head(x.sig) = 0
    THEN Canonical([sig |-> Tail(x.sig), exp |-> x.exp + 1])
    ELSE x

\* an integer literal or an integer below 2^31, which a double holds exactly
Number(n) == Canonical([sig |-> NatBits(n), exp |-> 0])

\* the literal 0.15: 1.0011 0011 ... 0011 in binary (52 fraction digits)
\* times 2^-3
POINT_15 ==
    [sig |-> [i \in 1..PRECISION |-> IF (i - 1) % 4 \in {0, 1} THEN 1 ELSE 0],
     exp |-> 0 - 55]

\* x * y (the shorter significand is the multiplier)
Times(x, y) ==
    Canonical(RoundToDouble(IF Len(x.sig) <= Len(y.sig)
                            THEN MulBits(x.sig, y.sig)
                            ELSE MulBits(y.sig, x.sig),
                            x.exp + y.exp))

\* the significand of x when written with the exponent e <= x.exp
Scaled(x, e) ==
    IF x.sig = <<>> THEN x.sig ELSE [i \in 1..(x.exp - e) |-> 0] \o x.sig

\* x < y
NumberLess(x, y) ==
    LET e == IF x.exp <= y.exp THEN x.exp ELSE y.exp
    IN  NatLess(Scaled(x, e), Scaled(y, e))

\* Math.max(x, y)
MathMax(x, y) == IF NumberLess(x, y) THEN y ELSE x

----------------------------------------------------------------------------
(* The native bridge: RustServer.run_shell(script, timeout)                *)

CODE_OK == <<"\"", "c", "o", "d", "e", "\"", ":", " ", "0">>

CODE_OK_TIGHT == <<"\"", "c", "o", "d", "e", "\"", ":", "0">>

AMLOGIC == <<"a", "m", "l", "o", "g", "i", "c">>

UNKNOWN == <<"u", "n", "k", "n", "o", "w", "n">>

\* the text spoken when play is given no text
DEFAULT_TEXT == <<"ni", "hao">>

\* outputs a device command can print
Stdouts ==
    { <<>>,
      <<"1">>,
      <<"2">>,
      <<"2", "1">>,
      <<"{">> \o CODE_OK \o <<"}">>,
      <<"{">> \o CODE_OK_TIGHT \o <<"}">>,
      <<"A", "m", "l", "o", "g", "i", "c", "\n">>,
      <<"b", "o", "o", "t", "0", "\n">>,
      <<"o", "n", "\n">>,
      <<"m", "d", " ", "s", "n", "\n">> }

ExitCodes == {0, 1}

CommandResults ==
    [stdout : Stdouts, stderr : {<<>>}, exit_code : ExitCodes]

\* JSON text: either the encoding of a value or text that is no JSON
JSONText(v) == [parses |-> TRUE, value |-> v]

Garbage == [parses |-> FALSE]

\* what run_shell settles to: it rejects (timeout, transport failure),
\* resolves with nothing, or resolves with text
BridgeReplies ==
    { [kind |-> "timeout"], [kind |-> "failure"], [kind |-> "nothing"],
      [kind |-> "text", text |-> Garbage] }
    \cup {[kind |-> "text", text |-> JSONText(r)] : r \in CommandResults}

NoReply == [kind |-> "none"]

\* the outcome of an await: a value, or an exception
Returned(v) == [threw |-> FALSE, value |-> v]

Thrown == [threw |-> TRUE, value |-> Undefined]

\* JSON.parse
JSONparse(text) == IF text.parses THEN Returned(Obj(text.value)) ELSE Thrown

DEFAULT_TIMEOUT == 10000

\* the default as a JavaScript number
DefaultTimeout == Number(DEFAULT_TIMEOUT)

\* runShell: const { timeout = 10 * 1000 } = options ?? {}
runShellTimeout(options) ==
    IF options = Undefined THEN DefaultTimeout ELSE options.timeout

\* the command runShell(script, options) hands to run_shell
Command(script, arg, options) ==
    [script |-> script, arg |-> arg, timeout |-> runShellTimeout(options)]

NoCmd == [script |-> "none"]

\* runShell without the try/catch around run_shell and JSON.parse
runShellUncaught(reply) ==
    IF reply.kind \in {"timeout", "failure"} THEN Thrown
    ELSE IF reply.kind = "nothing" THEN Returned(Undefined)
    ELSE JSONparse(reply.text)

\* SpeakerManager.runShell, from the settling of run_shell on
runShell(reply) ==
    IF reply.kind \in {"timeout", "failure"} THEN Returned(Undefined)
    ELSE IF reply.kind = "nothing" THEN Returned(Undefined)
    ELSE IF JSONparse(reply.text).threw THEN Returned(Undefined)
    ELSE JSONparse(reply.text)

\* res?.stdout.includes(p)
StdoutIncludes(res, p) ==
    IF res = Undefined THEN Undefined
    ELSE Bool(Includes(res.obj.stdout, p))

\* res?.exit_code === 0
ExitedZero(res) ==
    IF res = Undefined THEN Bool(FALSE)
    ELSE Bool(res.obj.exit_code = 0)

\* JavaScript truthiness of undefined, a boolean or a string
Truthy(v) ==
    IF v = Undefined THEN FALSE
    ELSE IF "bool" \in DOMAIN v THEN v.bool
    ELSE IF "str" \in DOMAIN v THEN Len(v.str) > 0
    ELSE TRUE

----------------------------------------------------------------------------
(* SpeakerManager: what each method does with the result of runShell       *)

Callers == {"c1", "c2"}

StatusValues == {"idle", "playing", "paused"}

Max(a, b) == IF a >= b THEN a ELSE b

\* getPlaying with its two tests in the other order
getPlayingStatusPausedFirst(res, cur) ==
    IF StdoutIncludes(res, <<"2">>) = Bool(TRUE) THEN "paused"
    ELSE IF StdoutIncludes(res, <<"1">>) = Bool(TRUE) THEN "playing"
    ELSE cur

\* getPlaying taking an output without a code for idle
getPlayingStatusIdleOtherwise(res, cur) ==
    IF StdoutIncludes(res, <<"1">>) = Bool(TRUE) THEN "playing"
    ELSE IF StdoutIncludes(res, <<"2">>) = Bool(TRUE) THEN "paused"
    ELSE "idle"

\* getPlaying leaving the cached status to the events
getPlayingStatusKeepsCache(res, cur) == cur

\* getPlaying, lines 40-44: the status after the status query
getPlayingStatus(res, cur) ==
    IF StdoutIncludes(res, <<"1">>) = Bool(TRUE) THEN "playing"
    ELSE IF StdoutIncludes(res, <<"2">>) = Bool(TRUE) THEN "paused"
    ELSE cur

\* setPlaying writing the cache when the device accepted the command
setPlayingCachesStatus(args, res, cur) ==
    IF StdoutIncludes(res, CODE_OK) = Bool(TRUE)
    THEN IF args.playing THEN "playing" ELSE "paused"
    ELSE cur

\* setPlaying, lines 52-57: status is not assigned
setPlayingStatus(args, res, cur) == cur

\* isNewDevice taking a failed probe for a new-generation device
isNewDeviceAssumesNew(res) ==
    IF res = Undefined THEN Bool(TRUE)
    ELSE Bool(Includes(ToLowerCase(res.obj.stdout), AMLOGIC))

\* isNewDevice: res?.stdout?.toLowerCase()?.includes("amlogic")
isNewDevice(res) ==
    IF res = Undefined THEN Undefined
    ELSE Bool(Includes(ToLowerCase(res.obj.stdout), AMLOGIC))

\* play: the text handed to the device
playCleanText(text) ==
    IF Truthy(text) THEN Str(removeThinkingTags(text.str)) ELSE text

HI == <<"h", "i">>

\* the shortest text whose blocking timeout exceeds 20 seconds
LONG_TEXT == [i \in 1..134 |-> "a"]

PlayTexts == {<<>>, HI, OPEN \o <<"a">> \o CLOSE \o HI}

\* Math.max(20, text.length * 0.15) * 1000, for the lengths of the texts
\* played
blockingTextTimeout ==
    [n \in {Len(t) : t \in PlayTexts \cup {LONG_TEXT}} |->
        Times(MathMax(Number(20), Times(Number(n), POINT_15)), Number(1000))]

\* 20 * 1000
blockingTimeout == Number(20 * 1000)

\* 10 * 1000
nonBlockingTimeout == Number(10 * 1000)

\* play: the timeout of the content command, in milliseconds
playTimeout(options) ==
    IF Truthy(options.blocking)
    THEN IF Truthy(options.text)
         THEN blockingTextTimeout[Len(options.text.str)]
         ELSE blockingTimeout
    ELSE nonBlockingTimeout

\* cleanText || "ni hao"
playSpoken(cleanText) ==
    IF Truthy(cleanText) THEN cleanText.str ELSE DEFAULT_TEXT

\* play issuing the legacy speech command whatever the probe found
playCommandLegacyOnly(theCall, newDevice) ==
    Command("ubus call mibrain text_to_speech",
            JSONText([text |-> playSpoken(theCall.cleanText), save |-> 0]),
            [timeout |-> theCall.timeout])

\* play: the content command of the dialect chosen by the probe, from the
\* cleanText and timeout computed before the probe
playCommand(theCall, newDevice) ==
    IF Truthy(newDevice)
    THEN IF Truthy(theCall.args.url)
         THEN Command("curl | aplay", theCall.args.url.str,
                      [timeout |-> theCall.timeout])
         ELSE Command("/usr/sbin/tts_play.sh", playSpoken(theCall.cleanText),
                      [timeout |-> theCall.timeout])
    ELSE IF Truthy(theCall.args.url)
         THEN Command("ubus call mediaplayer player_play_url",
                      JSONText([url |-> theCall.args.url.str, type |-> 1]),
                      [timeout |-> theCall.timeout])
         ELSE Command("ubus call mibrain text_to_speech",
                      JSONText([text |-> playSpoken(theCall.cleanText),
                                save |-> 0]),
                      [timeout |-> theCall.timeout])

\* play judging both dialects by the exit code
playResultByExitCode(newDevice, res) == ExitedZero(res)

\* play: the value returned once the content command settled
playResult(newDevice, res) ==
    IF Truthy(newDevice) THEN ExitedZero(res)
    ELSE IF StdoutIncludes(res, CODE_OK) = Undefined THEN Bool(FALSE)
    ELSE StdoutIncludes(res, CODE_OK)

\* wakeUp: the command chosen by awake and silent
wakeUpCommand(args) ==
    IF args.awake
    THEN IF args.silent
         THEN Command("ubus call pnshelper event_notify",
                      <<[src |-> 1, event |-> 0]>>, Undefined)
         ELSE Command("ubus call pnshelper event_notify",
                      <<[src |-> 0, event |-> 0]>>, Undefined)
    ELSE Command("ubus call pnshelper event_notify",
                 <<[src |-> 3, event |-> 7], [src |-> 3, event |-> 8]>>,
                 Undefined)

\* getBoot: res?.stdout.trim()
getBootResult(res) ==
    IF res = Undefined THEN Undefined ELSE Str(Trim(res.obj.stdout))

\* getDevice: model and sn from the first two tokens of the output
getDeviceResult(res) ==
    LET info == IF res = Undefined THEN <<>> ELSE Split(Trim(res.obj.stdout))
    IN  [model |-> IF Len(info) >= 1 THEN info[1] ELSE UNKNOWN,
         sn |-> IF Len(info) >= 2 THEN info[2] ELSE UNKNOWN]

\* getMic: "on" when the output includes "on", else "off"
getMicResult(res) ==
    IF StdoutIncludes(res, <<"o", "n">>) = Bool(TRUE) THEN "on" ELSE "off"

NoCall == [op |-> "none"]

\* no playback event has written the status since the call began
NoWrite == [wrote |-> FALSE]

\* a call of a method: issued lists the commands it has handed to runShell,
\* eventWrote is the latest write of a playback event since it began
NewCall(op, args) ==
    [op |-> op, args |-> args, stage |-> "run", newDevice |-> Undefined,
     issued |-> <<>>, settled |-> 0, eventWrote |-> NoWrite]

\* a method that issues its command a second time when the first yielded
\* no result
ResumeRetrying(theCall, res, cur) ==
    IF res = Undefined /\ Len(theCall.issued) = 1
    THEN [status |-> cur, ret |-> Undefined, next |-> theCall.issued[1],
          call |-> [theCall EXCEPT !.issued = Append(@, theCall.issued[1])]]
    ELSE [status |-> cur, ret |-> res, next |-> NoCmd, call |-> theCall]

\* the method suspended in theCall resumes with res, the value of its
\* runShell call, and runs to its return or to its next runShell call
Resume(theCall, res, cur) ==
    LET done(st, ret) ==
            [status |-> st, ret |-> ret, next |-> NoCmd, call |-> theCall]
        op == theCall.op
        args == theCall.args
    IN  CASE op = "getPlaying" ->
               done(getPlayingStatus(res, cur),
                    [status |-> getPlayingStatus(res, cur)])
          [] op = "setPlaying" ->
               done(setPlayingStatus(args, res, cur),
                    StdoutIncludes(res, CODE_OK))
          [] op = "play" /\ theCall.stage = "probe" ->
               [status |-> cur, ret |-> Undefined,
                next |-> playCommand(theCall, isNewDevice(res)),
                call |-> [theCall EXCEPT
                            !.stage = "content",
                            !.newDevice = isNewDevice(res),
                            !.issued = Append(@, playCommand(theCall,
                                                  isNewDevice(res)))]]
          [] op = "play" /\ theCall.stage = "content" ->
               done(cur, playResult(theCall.newDevice, res))
          [] op = "wakeUp" -> done(cur, StdoutIncludes(res, CODE_OK))
          [] op = "askXiaoAI" -> done(cur, StdoutIncludes(res, CODE_OK))
          [] op = "abortXiaoAI" -> done(cur, ExitedZero(res))
          [] op = "getBoot" -> done(cur, getBootResult(res))
          [] op = "setBoot" -> done(cur, StdoutIncludes(res, args.boot_part))
          [] op = "getDevice" -> done(cur, getDeviceResult(res))
          [] op = "getMic" -> done(cur, [mic |-> getMicResult(res)])
          [] op = "setMic" -> done(cur, StdoutIncludes(res, CODE_OK_TIGHT))
          [] op = "runShell" -> done(cur, res)

----------------------------------------------------------------------------
(* SpeakerManager: the methods as steps of their callers                   *)

ON == <<"o", "n">>

PlayOptions(texts) ==
    [text : {Undefined} \cup {Str(t) : t \in texts},
     url : {Undefined, Str(<<"u">>)},
     blocking : {Undefined, Bool(TRUE), Bool(FALSE)}]

BootParts == {<<"b", "o", "o", "t", "0">>, <<"b", "o", "o", "t", "1">>}

CanCall(c) == engine = "serving" /\ pc[c] = "idle"

\* the method called as theCall hands cmd to runShell and is suspended
Suspend(c, theCall, cmd) ==
    /\ pc' = [pc EXCEPT ![c] = "await"]
    /\ call' = [call EXCEPT ![c] = [theCall EXCEPT !.issued = <<cmd>>]]
    /\ inflight' = [inflight EXCEPT ![c] = cmd]
    /\ last' = [step |-> "call", caller |-> c,
                call |-> [theCall EXCEPT !.issued = <<cmd>>],
                cmd |-> cmd, pre |-> status]
    /\ UNCHANGED <<status, inbox, engine, callbacks, bridge, san>>

getPlaying(c) ==
    /\ CanCall(c)
    /\ \E sync \in BOOLEAN :
         IF sync
         THEN Suspend(c, NewCall("getPlaying", [sync |-> sync]),
                      Command("mphelper mute_stat", <<>>, Undefined))
         ELSE /\ last' = [step |-> "return", caller |-> c,
                          call |-> NewCall("getPlaying", [sync |-> sync]),
                          cmd |-> NoCmd, reply |-> NoReply, res |-> Undefined,
                          threw |-> FALSE, ret |-> [status |-> status],
                          pre |-> status]
              /\ UNCHANGED <<status, pc, call, inflight, inbox, engine,
                             callbacks, bridge, san>>

setPlaying(c) ==
    /\ CanCall(c)
    /\ \E playing \in BOOLEAN :
         Suspend(c, NewCall("setPlaying", [playing |-> playing]),
                 Command(IF playing THEN "mphelper play" ELSE "mphelper pause",
                         <<>>, Undefined))

\* play up to its first await: cleanText and timeout are computed, then the
\* probe command of isNewDevice is issued
play(c, optionSet) ==
    /\ CanCall(c)
    /\ \E options \in optionSet :
         Suspend(c, [op |-> "play", args |-> options, stage |-> "probe",
                     newDevice |-> Undefined, issued |-> <<>>,
                     settled |-> 0, eventWrote |-> NoWrite,
                     cleanText |-> playCleanText(options.text),
                     timeout |-> playTimeout(options)],
                 Command("cat /proc/cpuinfo | grep Hardware", <<>>,
                         Undefined))

wakeUp(c) ==
    /\ CanCall(c)
    /\ \E awake \in BOOLEAN, silent \in BOOLEAN :
         Suspend(c, NewCall("wakeUp", [awake |-> awake, silent |-> silent]),
                 wakeUpCommand([awake |-> awake, silent |-> silent]))

askXiaoAI(c) ==
    /\ CanCall(c)
    /\ \E silent \in BOOLEAN :
         Suspend(c, NewCall("askXiaoAI", [text |-> HI, silent |-> silent]),
                 Command("ubus call mibrain ai_service",
                         JSONText([tts |-> IF silent THEN Undefined ELSE Bool(TRUE),
                                   nlp |-> 1, nlp_text |-> HI]),
                         Undefined))

abortXiaoAI(c) ==
    /\ CanCall(c)
    /\ Suspend(c, NewCall("abortXiaoAI", <<>>),
               Command("/etc/init.d/mico_aivs_lab restart", <<>>,
                       Undefined))

getBoot(c) ==
    /\ CanCall(c)
    /\ Suspend(c, NewCall("getBoot", <<>>),
               Command("echo $(fw_env -g boot_part)", <<>>, Undefined))

setBoot(c) ==
    /\ CanCall(c)
    /\ \E boot_part \in BootParts :
         Suspend(c, NewCall("setBoot", [boot_part |-> boot_part]),
                 Command("fw_env -s boot_part", boot_part, Undefined))

getDevice(c) ==
    /\ CanCall(c)
    /\ Suspend(c, NewCall("getDevice", <<>>),
               Command("echo $(micocfg_model) $(micocfg_sn)", <<>>,
                       Undefined))

getMic(c) ==
    /\ CanCall(c)
    /\ Suspend(c, NewCall("getMic", <<>>),
               Command("[ ! -f /tmp/mipns/mute ] && echo on || echo off",
                       <<>>, Undefined))

setMic(c) ==
    /\ CanCall(c)
    /\ \E on \in BOOLEAN :
         Suspend(c, NewCall("setMic", [on |-> on]),
                 Command("ubus -t1 -S call pnshelper event_notify",
                         <<[src |-> 3, event |-> IF on THEN 7 ELSE 8]>>,
                         Undefined))

\* a timeout a caller of runShell gives: five seconds
callerTimeout == Number(5 * 1000)

\* runShell called directly, with or without a timeout option
runShellCall(c) ==
    /\ CanCall(c)
    /\ \E options \in {Undefined, [timeout |-> callerTimeout]} :
         Suspend(c, NewCall("runShell", [options |-> options]),
                 Command("script", <<>>, options))

\* run_shell settles for caller c: runShell returns to the suspended method,
\* which runs on to its return or to its next runShell call
runShellSettles(c) ==
    /\ pc[c] = "await"
    /\ \E reply \in BridgeReplies :
         LET out == runShell(reply)
             r == Resume([call[c] EXCEPT !.settled = @ + 1], out.value,
                         status)
         IN  IF out.threw
             THEN /\ pc' = [pc EXCEPT ![c] = "idle"]
                  /\ call' = [call EXCEPT ![c] = NoCall]
                  /\ inflight' = [inflight EXCEPT ![c] = NoCmd]
                  /\ last' = [step |-> "return", caller |-> c,
                              call |-> call[c], cmd |-> inflight[c],
                              reply |-> reply, res |-> Undefined,
                              threw |-> TRUE, ret |-> Undefined,
                              pre |-> status]
                  /\ UNCHANGED status
             ELSE /\ status' = r.status
                  /\ IF r.next = NoCmd
                     THEN /\ pc' = [pc EXCEPT ![c] = "idle"]
                          /\ call' = [call EXCEPT ![c] = NoCall]
                          /\ inflight' = [inflight EXCEPT ![c] = NoCmd]
                          /\ last' = [step |-> "return", caller |-> c,
                                      call |-> r.call, cmd |-> inflight[c],
                                      reply |-> reply, res |-> out.value,
                                      threw |-> FALSE, ret |-> r.ret,
                                      pre |-> status]
                     ELSE /\ pc' = pc
                          /\ call' = [call EXCEPT ![c] = r.call]
                          /\ inflight' = [inflight EXCEPT ![c] = r.next]
                          /\ last' = [step |-> "await", caller |-> c,
                                      call |-> r.call, settled |-> inflight[c],
                                      cmd |-> r.next, reply |-> reply,
                                      res |-> out.value, threw |-> FALSE,
                                      pre |-> status]
    /\ UNCHANGED <<inbox, engine, callbacks, bridge, san>>

----------------------------------------------------------------------------
(* The sanitizers as pure functions: inputs built from delimiter pieces    *)

\* most pieces concatenated into one input text
MaxFrags == 4

\* whole delimiters, halves of delimiters (a delimiter split around another
\* one reassembles once the inner one is deleted), content and a line break
Fragments ==
    { OPEN, CLOSE, <<"<", "t", "h">>, <<"<", "/", "t", "h">>,
      <<"i", "n", "k", ">">>, <<"a">>, <<"\n">> }

RECURSIVE Concats(_)
Concats(n) ==
    IF n = 0 THEN {<<>>}
    ELSE LET shorter == Concats(n - 1)
         IN  shorter \cup {s \o f : s \in shorter, f \in Fragments}

Texts == Concats(MaxFrags)

\* san while no sanitizer is under study
SanIdle == [impl |-> "none", stage |-> "input", input |-> <<>>,
            prev |-> <<>>, out |-> <<>>]

NextStage(stage) == IF stage = "input" THEN "once" ELSE "twice"

\* play: const cleanText = text ? removeThinkingTags(text) : text
\* (applied again to its own output to study repeated application)
SpeakerSanitize ==
    /\ san.impl \in {"none", "speaker"}
    /\ san.stage # "twice"
    /\ san' = [san EXCEPT !.impl = "speaker",
                          !.stage = NextStage(san.stage),
                          !.prev = san.out,
                          !.out = removeThinkingTags(san.out)]
    /\ UNCHANGED ctl

\* processAIResponse: return removeThinkingTags(processedResponse), where
\* san.out is the processed response handed over by the parent hook
processAIResponse ==
    /\ san.impl \in {"none", "engine"}
    /\ san.stage # "twice"
    /\ san' = [san EXCEPT !.impl = "engine",
                          !.stage = NextStage(san.stage),
                          !.prev = san.out,
                          !.out = engineRemoveThinkingTags(san.out)]
    /\ UNCHANGED ctl

----------------------------------------------------------------------------
(* OpenXiaoAIEngine: start, onEvent, onRecord                              *)

PLAYING == <<"P", "l", "a", "y", "i", "n", "g">>

PAUSED == <<"P", "a", "u", "s", "e", "d">>

IDLE == <<"I", "d", "l", "e">>

\* most messages handed to onMessage and not yet consumed by the engine
MaxInbox == 2

Arr(items) == [arr |-> items]

\* the results of a recognition payload
ResultLists ==
    {Undefined, Arr(<<>>)}
    \cup {Arr(<<[text |-> t]>>) : t \in {Undefined, Str(<<>>), Str(HI), Str(ON)}}

Payloads ==
    {Undefined}
    \cup {Obj([is_final |-> f, results |-> r]) :
            f \in {Undefined, Bool(TRUE), Bool(FALSE)}, r \in ResultLists}

Headers ==
    {Undefined}
    \cup {Obj([namespace |-> h[1], name |-> h[2]]) :
            h \in { <<"SpeechRecognizer", "RecognizeResult">>,
                    <<"SpeechRecognizer", "StopCapture">>,
                    <<"Nlp", "RecognizeResult">> }}

\* the objects a NewLine field can encode
Lines == [header : Headers, payload : Payloads]

\* the NewLine field of an instruction event: missing, empty, no JSON, a line
NewLines ==
    {Undefined, Str(<<>>), Garbage} \cup {JSONText(line) : line \in Lines}

\* the events the bridge can deliver, decoded
Events ==
    {[event |-> "playing", data |-> d] :
        d \in {Str(PLAYING), Str(PAUSED), Str(IDLE), Undefined}}
    \cup {[event |-> "instruction", data |-> d] :
        d \in {Undefined, Str(HI)} \cup {Obj([NewLine |-> n]) : n \in NewLines}}
    \cup {[event |-> "kws", data |-> Str(HI)]}
    \cup {[event |-> "volume", data |-> Undefined]}

\* the strings the bridge can hand to on_event
RawEvents == {Garbage} \cup {JSONText(e) : e \in Events}

\* those of them that carry no instruction: playback, keyword, unknown kinds
PlainRawEvents ==
    {Garbage} \cup {JSONText(e) : e \in {x \in Events : x.event # "instruction"}}

\* jsonDecode of @mi-gpt/utils/parse: the decoded value, or nothing
jsonDecode(text) == IF text.parses THEN Obj(text.value) ELSE Undefined

\* e.data.NewLine: reading a property of undefined throws, of a string
\* yields undefined
ReadNewLine(data) ==
    IF data = Undefined THEN Thrown
    ELSE IF "obj" \in DOMAIN data THEN Returned(data.obj.NewLine)
    ELSE Returned(Undefined)

\* truthiness of a NewLine field: a non-empty string
NewLineTruthy(n) == n # Undefined /\ n # Str(<<>>)

\* line?.header?.namespace === ns && line?.header?.name === nm
HeaderIs(line, ns, nm) ==
    /\ line # Undefined
    /\ line.obj.header # Undefined
    /\ line.obj.header.obj.namespace = ns
    /\ line.obj.header.obj.name = nm

\* line?.payload?.is_final
IsFinal(line) ==
    IF line = Undefined \/ line.obj.payload = Undefined THEN Undefined
    ELSE line.obj.payload.obj.is_final

\* line?.payload?.results?.[0]?.text
FirstText(line) ==
    IF line = Undefined \/ line.obj.payload = Undefined THEN Undefined
    ELSE LET results == line.obj.payload.obj.results
         IN  IF results = Undefined THEN Undefined
             ELSE IF Len(results.arr) = 0 THEN Undefined
             ELSE results.arr[1].text

\* the condition of lines 333-338 without its is_final test
IsRecognitionWithText(line) ==
    /\ HeaderIs(line, "SpeechRecognizer", "RecognizeResult")
    /\ Truthy(FirstText(line))

\* the condition of lines 333-338
IsFinalRecognition(line) ==
    /\ HeaderIs(line, "SpeechRecognizer", "RecognizeResult")
    /\ Truthy(IsFinal(line))
    /\ Truthy(FirstText(line))

\* the message of lines 340-345 (id and timestamp are fresh values)
UserMessage(text) == [text |-> text, sender |-> "user"]

Quiet(cur) == [threw |-> FALSE, status |-> cur, forwarded |-> <<>>]

\* the playback mapping without its idle branch
playbackStatusNoIdle(data) ==
    IF data = Str(PLAYING) THEN "playing" ELSE "paused"

\* the status a playback event writes, lines 324-329
playbackStatus(data) ==
    IF data = Str(PLAYING) THEN "playing"
    ELSE IF data = Str(PAUSED) THEN "paused"
    ELSE "idle"

\* what an instruction event with a truthy NewLine forwards, lines 332-346
recognized(newLine) ==
    IF IsFinalRecognition(jsonDecode(newLine))
    THEN <<UserMessage(FirstText(jsonDecode(newLine)).str)>>
    ELSE <<>>

\* onEvent taking a keyword event for a playback event
onEventKwsAsPlayback(raw, cur) ==
    IF JSONparse(raw).threw THEN [Quiet(cur) EXCEPT !.threw = TRUE]
    ELSE IF raw.value.event \in {"playing", "kws"}
    THEN [Quiet(cur) EXCEPT !.status = playbackStatus(raw.value.data)]
    ELSE Quiet(cur)

\* onEvent on the raw string: whether it threw, the status it leaves and
\* the messages it hands to onMessage
onEventOutcome(raw, cur) ==
    IF JSONparse(raw).threw THEN [Quiet(cur) EXCEPT !.threw = TRUE]
    ELSE LET e == raw.value
         IN  IF e.event = "playing"
             THEN [Quiet(cur) EXCEPT !.status = playbackStatus(e.data)]
             ELSE IF e.event = "instruction" /\ ReadNewLine(e.data).threw
             THEN [Quiet(cur) EXCEPT !.threw = TRUE]
             ELSE IF e.event = "instruction"
                     /\ NewLineTruthy(ReadNewLine(e.data).value)
             THEN [Quiet(cur) EXCEPT
                     !.forwarded = recognized(ReadNewLine(e.data).value)]
             ELSE Quiet(cur)

\* start up to its first await (super.start)
start ==
    /\ engine = "constructed"
    /\ engine' = "starting"
    /\ last' = [step |-> "start", pre |-> status]
    /\ UNCHANGED <<status, pc, call, inflight, inbox, callbacks, bridge, san>>

\* start with its two steps in the other order
startStepsBridgeFirst == <<"start", "register">>

\* start after super.start, in program order: the assignment to
\* RUST_CALLBACKS (line 297), then the call of RustServer.start (line 303)
startSteps == <<"register", "start">>

\* the steps of start run one after the other on s, the registered callbacks
\* and the bridge, up to the await on RustServer.start
RECURSIVE runStartSteps(_, _)
runStartSteps(steps, s) ==
    IF steps = <<>> THEN s
    ELSE IF Head(steps) = "register"
    THEN runStartSteps(Tail(steps),
                       [s EXCEPT !.callbacks = [on_event |-> TRUE,
                                                on_input_data |-> TRUE]])
    ELSE [s EXCEPT !.bridge = [starts |-> @.starts + 1, running |-> TRUE]]

\* start after super.start, up to its await on RustServer.start
startBridge ==
    /\ engine = "starting"
    /\ callbacks' =
         runStartSteps(startSteps,
                       [callbacks |-> callbacks, bridge |-> bridge]).callbacks
    /\ bridge' =
         runStartSteps(startSteps,
                       [callbacks |-> callbacks, bridge |-> bridge]).bridge
    /\ engine' = "serving"
    /\ last' = [step |-> "serve", pre |-> status]
    /\ UNCHANGED <<status, pc, call, inflight, inbox, san>>

\* raw is a playback event: onEvent writes the status
IsPlaybackEvent(raw) == raw.parses /\ raw.value.event = "playing"

\* the calls in progress, told that a playback event wrote the status st
Overtaken(st) ==
    [c \in Callers |->
        IF pc[c] = "await"
        THEN [call[c] EXCEPT !.eventWrote = [wrote |-> TRUE, value |-> st]]
        ELSE call[c]]

\* the running bridge dispatches one of the events raws: to the on_event
\* callback when one is registered, to nobody otherwise
onEvent(raws) ==
    /\ bridge.running
    /\ \E raw \in raws :
         LET out == onEventOutcome(raw, status)
         IN  IF callbacks.on_event
             THEN /\ Len(inbox) + Len(out.forwarded) <= MaxInbox
                  /\ status' = out.status
                  /\ inbox' = inbox \o out.forwarded
                  /\ call' = IF IsPlaybackEvent(raw)
                             THEN Overtaken(out.status)
                             ELSE call
                  /\ last' = [step |-> "event", raw |-> raw,
                              threw |-> out.threw,
                              forwarded |-> out.forwarded, pre |-> status]
             ELSE /\ last' = [step |-> "lost", raw |-> raw, pre |-> status]
                  /\ UNCHANGED <<status, inbox, call>>
    /\ UNCHANGED <<pc, inflight, engine, callbacks, bridge, san>>

\* the running bridge dispatches an audio frame: to the on_input_data
\* callback when one is registered, to nobody otherwise
onRecord ==
    /\ bridge.running
    /\ \E size \in {0, 2} :
         last' = [step |-> IF callbacks.on_input_data THEN "record" ELSE "lost",
                  size |-> size, pre |-> status]
    /\ UNCHANGED <<status, pc, call, inflight, inbox, engine, callbacks, bridge,
                   san>>

\* the engine's onMessage is done with the oldest message
onMessageDone ==
    /\ inbox # <<>>
    /\ inbox' = Tail(inbox)
    /\ last' = [step |-> "consumed", pre |-> status]
    /\ UNCHANGED <<status, pc, call, inflight, engine, callbacks, bridge, san>>

----------------------------------------------------------------------------
(* The controller and the event handlers together                          *)

Init ==
    /\ status = "idle"
    /\ pc = [c \in Callers |-> "idle"]
    /\ call = [c \in Callers |-> NoCall]
    /\ inflight = [c \in Callers |-> NoCmd]
    /\ inbox = <<>>
    /\ engine = "constructed"
    /\ callbacks = [on_event |-> FALSE, on_input_data |-> FALSE]
    /\ bridge = [starts |-> 0, running |-> FALSE]
    /\ last = [step |-> "init", pre |-> "idle"]
    /\ san = SanIdle

\* the instruction events are left to EventSpec: they neither read nor
\* write what the controller's methods read and write
Next ==
    \/ start
    \/ startBridge
    \/ onEvent(PlainRawEvents)
    \/ onRecord
    \/ \E c \in {"c1"} :
         \/ getPlaying(c)
         \/ setPlaying(c)
         \/ play(c, PlayOptions(PlayTexts))
         \/ wakeUp(c)
         \/ askXiaoAI(c)
         \/ abortXiaoAI(c)
         \/ getBoot(c)
         \/ setBoot(c)
         \/ getDevice(c)
         \/ getMic(c)
         \/ setMic(c)
         \/ runShellCall(c)
         \/ runShellSettles(c)

Spec == Init /\ [][Next]_vars

----------------------------------------------------------------------------
(* The controller alone, with long texts among those played                *)

TimeoutNext ==
    \/ start
    \/ startBridge
    \/ \E c \in {"c1"} :
         \/ getPlaying(c)
         \/ setPlaying(c)
         \/ play(c, PlayOptions(PlayTexts \cup {LONG_TEXT}))
         \/ wakeUp(c)
         \/ askXiaoAI(c)
         \/ abortXiaoAI(c)
         \/ getBoot(c)
         \/ setBoot(c)
         \/ getDevice(c)
         \/ getMic(c)
         \/ setMic(c)
         \/ runShellCall(c)
         \/ runShellSettles(c)

TimeoutSpec == Init /\ [][TimeoutNext]_vars

----------------------------------------------------------------------------
(* Two callers whose play calls interleave with each other and with the    *)
(* playback events                                                         *)

\* play({text}) and play({url})
InterleavedOptions ==
    {o \in PlayOptions({HI}) :
        /\ o.blocking = Undefined
        /\ (o.text = Undefined) # (o.url = Undefined)}

\* the playback events "Playing" and "Paused"
PlaybackRawEvents ==
    {JSONText([event |-> "playing", data |-> Str(d)]) : d \in {PLAYING, PAUSED}}

PlayNext ==
    \/ start
    \/ startBridge
    \/ onEvent(PlaybackRawEvents)
    \/ \E c \in Callers :
         \/ play(c, InterleavedOptions)
         \/ runShellSettles(c)

PlaySpec == Init /\ [][PlayNext]_vars

----------------------------------------------------------------------------
(* Event ingestion alone, on every event                                   *)

EventNext ==
    \/ start
    \/ startBridge
    \/ onEvent(RawEvents)
    \/ onRecord
    \/ onMessageDone

EventSpec == Init /\ [][EventNext]_vars

----------------------------------------------------------------------------
(* The sanitizers alone, on every input text                               *)

SanInit ==
    /\ status = "idle"
    /\ pc = [c \in Callers |-> "idle"]
    /\ call = [c \in Callers |-> NoCall]
    /\ inflight = [c \in Callers |-> NoCmd]
    /\ inbox = <<>>
    /\ engine = "constructed"
    /\ callbacks = [on_event |-> FALSE, on_input_data |-> FALSE]
    /\ bridge = [starts |-> 0, running |-> FALSE]
    /\ last = [step |-> "init", pre |-> "idle"]
    /\ \E x \in Texts : san = [SanIdle EXCEPT !.input = x, !.out = x]

SanNext == SpeakerSanitize \/ processAIResponse

SanSpec == SanInit /\ [][SanNext]_vars

----------------------------------------------------------------------------
(* Properties                                                              *)

\* the decoded event of the step just taken, when it was an event of kind k
LastEventIs(k) ==
    /\ last.step = "event"
    /\ last.raw.parses
    /\ last.raw.value.event = k

LastData == last.raw.value.data

\* C1: after a playback event the status is playing for data "Playing",
\* paused for data "Paused" and idle for any other data, whatever the
\* status was before.
C1_PlaybackEventSetsStatus ==
    LastEventIs("playing") =>
        /\ LastData = Str(PLAYING) => status = "playing"
        /\ LastData = Str(PAUSED) => status = "paused"
        /\ LastData \notin {Str(PLAYING), Str(PAUSED)} => status = "idle"

\* a playback event "Paused" has overwritten the status playing
C1_Witness ==
    /\ LastEventIs("playing")
    /\ LastData = Str(PAUSED)
    /\ last.pre = "playing"
    /\ status = "paused"

\* the step just taken is one in which run_shell settled
Settled == last.step \in {"await", "return"} /\ last.reply # NoReply

ReplyFailed(reply) ==
    \/ reply.kind \in {"timeout", "failure", "nothing"}
    \/ reply.kind = "text" /\ ~reply.text.parses

\* C2: runShell never throws; it yields undefined when the bridge timed out,
\* failed, returned nothing or returned text that is no JSON, and yields a
\* CommandResult only when the bridge returned JSON, which it then decodes.
C2_RunShellNeverThrows ==
    Settled =>
        /\ ~last.threw
        /\ ReplyFailed(last.reply) => last.res = Undefined
        /\ last.res # Undefined =>
             /\ last.reply.kind = "text"
             /\ last.reply.text.parses
             /\ last.res = Obj(last.reply.text.value)
        /\ (last.step = "return" /\ last.call.op = "runShell") =>
             last.ret = last.res

\* a direct runShell call whose command timed out has returned undefined
C2_Witness ==
    /\ last.step = "return"
    /\ last.call.op = "runShell"
    /\ last.reply.kind = "timeout"
    /\ ~last.threw
    /\ last.ret = Undefined

\* position k of text t lies between an opening delimiter and the first
\* closing delimiter after it
Enclosed(t, k) ==
    \E i \in 1..Len(t) :
        /\ BlockEnd(t, i) # 0
        /\ i + Len(OPEN) <= k
        /\ k < BlockEnd(t, i) - Len(CLOSE)

\* every content character of t lies inside a matched pair
ContentEnclosed(t) ==
    \A k \in 1..Len(t) : t[k] = "a" => Enclosed(t, k)

\* C3: the sanitizer removes each matched pair with everything between its
\* delimiters: when all the content of the input is enclosed in matched
\* pairs, none of it appears in the output.
C3_EnclosedContentRemoved ==
    (san.stage = "once" /\ ContentEnclosed(san.input)) =>
        ~Includes(san.out, <<"a">>)

\* C4: the output of the sanitizer holds neither delimiter, and the empty
\* text is sanitized to the empty text.
C4_NoDelimiterInOutput ==
    san.stage = "once" =>
        /\ ~Includes(san.out, OPEN)
        /\ ~Includes(san.out, CLOSE)
        /\ san.input = <<>> => san.out = <<>>

\* C5: the sanitizer is idempotent: applied to its own output it returns
\* that output.
C5_Idempotent == san.stage = "twice" => san.out = san.prev

\* the line an instruction event carries in its NewLine field, if any
LastLine ==
    IF LastData # Undefined /\ "obj" \in DOMAIN LastData
          /\ LastData.obj.NewLine \notin {Undefined, Str(<<>>)}
          /\ LastData.obj.NewLine.parses
    THEN LastData.obj.NewLine.value
    ELSE Undefined

LastPayload == IF LastLine = Undefined THEN Undefined ELSE LastLine.payload

\* the recognized text of the line: results[0].text, if there is one
LastText ==
    IF LastPayload = Undefined THEN Undefined
    ELSE IF LastPayload.obj.results = Undefined THEN Undefined
    ELSE IF LastPayload.obj.results.arr = <<>> THEN Undefined
    ELSE LastPayload.obj.results.arr[1].text

LastIsFinal == LastPayload # Undefined /\ LastPayload.obj.is_final = Bool(TRUE)

LastHasText == LastText # Undefined /\ LastText # Str(<<>>)

LastIsRecognizeResult ==
    /\ LastLine # Undefined
    /\ LastLine.header =
         Obj([namespace |-> "SpeechRecognizer", name |-> "RecognizeResult"])

\* C6: an instruction event whose line is a SpeechRecognizer/RecognizeResult,
\* final and with a non-empty first text, forwards exactly one message, with
\* that text and sender "user"; one that is not final, or whose text is empty
\* or absent, forwards none.
C6_FinalRecognitionForwarded ==
    LastEventIs("instruction") =>
        /\ (LastIsRecognizeResult /\ LastIsFinal /\ LastHasText) =>
             /\ last.forwarded = <<[text |-> LastText.str, sender |-> "user"]>>
             /\ inbox # <<>>
             /\ inbox[Len(inbox)] = [text |-> LastText.str, sender |-> "user"]
        /\ (~LastIsFinal \/ ~LastHasText) => last.forwarded = <<>>

\* a final recognition of "hi" has been handed to the message handler
C6_Witness ==
    /\ LastEventIs("instruction")
    /\ LastIsRecognizeResult /\ LastIsFinal
    /\ LastText = Str(HI)
    /\ inbox = <<[text |-> HI, sender |-> "user"]>>

\* the methods that report success as a boolean
BooleanOps ==
    {"setPlaying", "play", "wakeUp", "askXiaoAI", "abortXiaoAI", "setBoot",
     "setMic"}

\* C7: a method with a boolean result returns false, and does not throw,
\* when its runShell call yielded no result.
C7_AbsentResultGivesFalse ==
    (/\ Settled
     /\ last.step = "return"
     /\ last.call.op \in BooleanOps
     /\ last.res = Undefined) =>
        /\ ~last.threw
        /\ last.ret = Bool(FALSE)

LegacyScripts ==
    {"ubus call mediaplayer player_play_url", "ubus call mibrain text_to_speech"}

\* play has resumed from its probe and issued its content command
ProbeSettled ==
    /\ Settled
    /\ last.step = "await"
    /\ last.call.op = "play"

ProbeSawMarker ==
    /\ last.res # Undefined
    /\ Includes(ToLowerCase(last.res.obj.stdout), AMLOGIC)

StatusWriter ==
    \/ LastEventIs("playing")
    \/ /\ last.step = "return"
       /\ last.call.op = "getPlaying"
       /\ last.call.args.sync

\* C9: a step of setPlaying or of any other method, whatever the outcome of
\* its command, leaves the status as it was; only getPlaying(true) and
\* playback events change it.
C9_OnlyWritersChangeStatus == status # last.pre => StatusWriter

\* setPlaying(true) was accepted by the device while the status was paused,
\* and the status is still paused
C9_Witness ==
    /\ last.step = "return"
    /\ last.call.op = "setPlaying"
    /\ last.call.args.playing
    /\ last.ret = Bool(TRUE)
    /\ last.pre = "paused"
    /\ status = "paused"

\* getPlaying has returned
GetPlayingReturned ==
    /\ last.step = "return"
    /\ last.call.op = "getPlaying"

Carries(res, code) == res # Undefined /\ Includes(res.obj.stdout, code)

\* what C10 says of getPlaying apart from the code 2
GetPlayingFrame ==
    /\ ~last.call.args.sync =>
         /\ last.cmd = NoCmd
         /\ last.reply = NoReply
         /\ status = last.pre
    /\ last.call.args.sync =>
         /\ last.cmd.script = "mphelper mute_stat"
         /\ Carries(last.res, <<"1">>) => status = "playing"
         /\ (~Carries(last.res, <<"1">>) /\ ~Carries(last.res, <<"2">>)) =>
              status = last.pre
    /\ ~last.threw
    /\ last.ret = [status |-> status]

\* C10 as claimed: getPlaying(false) returns the cached status and issues
\* no command; getPlaying(true) issues the status query and sets playing on
\* code 1, paused on code 2, and leaves the status alone otherwise; the
\* value returned is the cached status.
C10_GetPlayingAsClaimed ==
    GetPlayingReturned =>
        /\ GetPlayingFrame
        /\ (last.call.args.sync /\ Carries(last.res, <<"2">>)) =>
             status = "paused"

\* C10 amended: as claimed, except that the output sets paused when it
\* carries code 2 and does not carry code 1.
C10_GetPlayingCodeOneFirst ==
    GetPlayingReturned =>
        /\ GetPlayingFrame
        /\ (/\ last.call.args.sync
            /\ Carries(last.res, <<"2">>)
            /\ ~Carries(last.res, <<"1">>)) => status = "paused"

\* a status query answered with both codes has set the status playing
\* over paused
C10_Witness ==
    /\ GetPlayingReturned
    /\ last.call.args.sync
    /\ last.res # Undefined
    /\ last.res.obj.stdout = <<"2", "1">>
    /\ last.pre = "paused"
    /\ status = "playing"
    /\ last.ret = [status |-> "playing"]

\* play has returned from its content command
PlayReturned ==
    /\ Settled
    /\ last.step = "return"
    /\ last.call.op = "play"

NewDeviceScripts == {"curl | aplay", "/usr/sbin/tts_play.sh"}

\* the content command reported success by the signal of its dialect
DialectSuccess ==
    IF last.call.newDevice = Bool(TRUE)
    THEN /\ last.cmd.script \in NewDeviceScripts
         /\ last.res # Undefined
         /\ last.res.obj.exit_code = 0
    ELSE /\ last.cmd.script \in LegacyScripts
         /\ Carries(last.res, CODE_OK)

\* C11: play returns true exactly when its content command reported success
\* by the signal of the dialect the probe selected (exit code 0 on a
\* new-generation device, the marker "code": 0 in the output on a legacy
\* one), and returns false in every other case, an absent result included.
C11_PlayTrueOnlyOnDialectSuccess ==
    PlayReturned =>
        /\ ~last.threw
        /\ last.ret = Bool(DialectSuccess)

\* a legacy play returned true on the marker although the command exited
\* with code 1
C11_Witness ==
    /\ PlayReturned
    /\ last.call.newDevice = Bool(FALSE)
    /\ last.res # Undefined
    /\ last.res.obj.exit_code = 1
    /\ Includes(last.res.obj.stdout, CODE_OK)
    /\ last.ret = Bool(TRUE)

\* the timeout C12 gives for the content command of play(options), for the
\* options it speaks of
ClaimedPlayTimeout(options) ==
    IF ~Truthy(options.blocking) THEN Number(10000)
    ELSE IF options.text # Undefined
    THEN Number(Max(20000, 150 * Len(options.text.str)))
    ELSE Number(20000)

\* C12: the content command of play is issued with the timeout
\* max(20000, 150 * length(text)) ms when blocking with a text, 20000 ms when
\* blocking with a URL, 10000 ms when not blocking; the probe command and
\* every command issued without a timeout option are issued with 10000 ms.
C12_PlayTimeouts ==
    /\ (/\ last.step = "await"
        /\ last.call.op = "play"
        /\ \/ ~Truthy(last.call.args.blocking)
           \/ last.call.args.text # Undefined
           \/ last.call.args.url # Undefined) =>
         last.cmd.timeout = ClaimedPlayTimeout(last.call.args)
    /\ (/\ last.step = "call"
        /\ ~(last.call.op = "runShell"
             /\ last.call.args.options # Undefined)) =>
         last.cmd.timeout = Number(10000)

\* the whitespace-separated tokens of s
RECURSIVE TokensFrom(_, _, _)
TokensFrom(s, i, cur) ==
    IF i > Len(s) THEN (IF cur = <<>> THEN <<>> ELSE <<cur>>)
    ELSE IF IsSpace(s[i])
    THEN (IF cur = <<>> THEN <<>> ELSE <<cur>>) \o TokensFrom(s, i + 1, <<>>)
    ELSE TokensFrom(s, i + 1, Append(cur, s[i]))

\* the k-th token of the output of the command, "unknown" when it is absent
TokenOrUnknown(res, k) ==
    IF res = Undefined THEN UNKNOWN
    ELSE IF Len(TokensFrom(res.obj.stdout, 1, <<>>)) >= k
    THEN TokensFrom(res.obj.stdout, 1, <<>>)[k]
    ELSE UNKNOWN

\* C13: getDevice returns as model the first whitespace-separated token of
\* the output and as sn the second, and "unknown" for each token that is
\* absent: both are "unknown" on empty output and on an absent result.
C13_GetDeviceTokens ==
    (Settled /\ last.step = "return" /\ last.call.op = "getDevice") =>
        last.ret = [model |-> TokenOrUnknown(last.res, 1),
                    sn |-> TokenOrUnknown(last.res, 2)]

\* the event just handled matches no recognized pattern: its kind is
\* unknown, or it is an instruction that is no final recognition result
\* with a text
LastUnrecognized ==
    /\ last.step = "event"
    /\ last.raw.parses
    /\ \/ last.raw.value.event \notin {"playing", "instruction", "kws"}
       \/ /\ last.raw.value.event = "instruction"
          /\ ~(LastIsRecognizeResult /\ LastIsFinal /\ LastHasText)

\* C14: onEvent on an event that matches no recognized pattern (unknown
\* kind, instruction without a data object or without NewLine, instruction
\* that is no final recognition result) returns without throwing, leaves
\* the status as it was and forwards no message.
C14_UnrecognizedIgnored ==
    LastUnrecognized =>
        /\ ~last.threw
        /\ status = last.pre
        /\ last.forwarded = <<>>

\* the step just taken handled a keyword event or an audio frame
KwsOrRecord == LastEventIs("kws") \/ last.step = "record"

\* C15: a keyword event and an audio frame each leave the status and the
\* messages forwarded to the engine as they were, in every state, and the
\* handler does not throw.
C15_KwsAndRecordAreInert ==
    [][KwsOrRecord' =>
         /\ status' = status
         /\ inbox' = inbox
         /\ LastEventIs("kws")' => ~last'.threw]_vars

\* a keyword event was handled while the status was playing and a message
\* was waiting for the engine
C15_Witness ==
    /\ LastEventIs("kws")
    /\ ~last.threw
    /\ last.pre = "playing"
    /\ status = "playing"
    /\ Len(inbox) = 1

PROBE == "cat /proc/cpuinfo | grep Hardware"

\* the commands theCall may have issued by now: one, or for play the probe
\* and then one content command
IssuedOnce(theCall) ==
    /\ \A i, j \in 1..Len(theCall.issued) :
          theCall.issued[i] = theCall.issued[j] => i = j
    /\ IF theCall.op = "play"
       THEN /\ Len(theCall.issued) \in {1, 2}
            /\ theCall.issued[1].script = PROBE
            /\ Len(theCall.issued) = 2 =>
                 theCall.issued[2].script \in LegacyScripts \cup NewDeviceScripts
       ELSE Len(theCall.issued) = 1

\* C16: no operation retries: whatever the replies of the bridge, a call
\* in progress has issued each of its commands once, and a call that has
\* returned has issued one command in all, two for play (the probe, then
\* the content command) and none for getPlaying(false).
C16_NoRetry ==
    /\ \A c \in Callers : call[c] # NoCall => IssuedOnce(call[c])
    /\ last.step \in {"call", "await"} =>
         /\ call[last.caller] = last.call
         /\ last.call.issued[Len(last.call.issued)] = last.cmd
    /\ last.step = "return" =>
         IF last.call.op = "getPlaying" /\ ~last.call.args.sync
         THEN last.call.issued = <<>>
         ELSE /\ ~last.threw
              /\ IssuedOnce(last.call)
              /\ Len(last.call.issued) = IF last.call.op = "play" THEN 2 ELSE 1

\* play has returned after its probe and its content command both yielded
\* no result, having issued two commands
C16_Witness ==
    /\ PlayReturned
    /\ last.call.newDevice = Undefined
    /\ last.reply.kind = "timeout"
    /\ Len(last.call.issued) = 2
    /\ last.ret = Bool(FALSE)

\* C17: in start the callbacks on_event and on_input_data are registered
\* before RustServer.start is called, and RustServer.start is called once
\* per engine start: the bridge never runs without both handlers, and it
\* dispatches no event and no audio frame to nobody.
C17_RegisteredBeforeBridgeStarts ==
    /\ bridge.running => callbacks.on_event /\ callbacks.on_input_data
    /\ bridge.starts = IF engine = "serving" THEN 1 ELSE 0
    /\ bridge.running <=> engine = "serving"
    /\ last.step # "lost"

\* the bridge, started once, has dispatched a playback event to the
\* registered handler
C17_Witness ==
    /\ LastEventIs("playing")
    /\ bridge = [starts |-> 1, running |-> TRUE]
    /\ callbacks.on_event
    /\ status = "playing"

\* getPlaying(true) has returned
SyncReturned ==
    /\ Settled
    /\ GetPlayingReturned
    /\ last.call.args.sync

\* C18: the status is the value of the most recent write, with no
\* reconciliation: when getPlaying(true) returns, the status is the value
\* of the query if the response carries a recognized code, also when a
\* playback event wrote the status while the query was in flight; if the
\* response is unrecognized or absent, the status stays the value of that
\* event.
C18_LastWriterWins ==
    /\ LastEventIs("playing") => status = playbackStatus(LastData)
    /\ SyncReturned =>
         /\ last.call.eventWrote.wrote => last.pre = last.call.eventWrote.value
         /\ status = IF Carries(last.res, <<"1">>) THEN "playing"
                     ELSE IF Carries(last.res, <<"2">>) THEN "paused"
                     ELSE last.pre
    /\ status # last.pre => (LastEventIs("playing") \/ SyncReturned)

\* a playback event set the status to paused while the status query was in
\* flight, and the response of the query, carrying code 1, has set it to
\* playing
C18_Witness ==
    /\ SyncReturned
    /\ last.call.eventWrote = [wrote |-> TRUE, value |-> "paused"]
    /\ last.res # Undefined
    /\ last.res.obj.stdout = <<"1">>
    /\ last.pre = "paused"
    /\ status = "playing"

\* the commands of theCall, a call of play in progress, are in program
\* order: at most one is in flight, and the content command is issued only
\* once the probe has settled
InProgramOrder(theCall) ==
    /\ Len(theCall.issued) - theCall.settled = 1
    /\ theCall.issued[1].script = PROBE
    /\ theCall.stage = "probe" => Len(theCall.issued) = 1
    /\ theCall.stage = "content" =>
         /\ Len(theCall.issued) = 2
         /\ theCall.settled = 1
         /\ theCall.issued[2].script \in NewDeviceScripts
               <=> theCall.newDevice = Bool(TRUE)

\* C19: within one play call the content command is issued only after the
\* probe has settled, the two are never in flight together, and the dialect
\* of the content command is that of this call's probe result alone (the
\* new-generation dialect exactly when its output holds "amlogic"),
\* whatever events and commands of the other caller interleave.
C19_PlayInProgramOrder ==
    /\ \A c \in Callers :
          call[c].op = "play" =>
             /\ pc[c] = "await"
             /\ InProgramOrder(call[c])
             /\ inflight[c] = call[c].issued[Len(call[c].issued)]
    /\ ProbeSettled =>
          /\ last.settled.script = PROBE
          /\ last.call.newDevice = Bool(TRUE) <=> ProbeSawMarker
          /\ last.cmd.script \in NewDeviceScripts <=> ProbeSawMarker
          /\ last.cmd.script \in LegacyScripts <=> ~ProbeSawMarker
    /\ PlayReturned =>
          /\ last.call.settled = 2
          /\ Len(last.call.issued) = 2
          /\ last.cmd = last.call.issued[2]

\* the probe of c1 has found a new-generation device and its content
\* command was issued, after a playback event, while the other caller's
\* play, whose probe found a legacy device, has its content command in
\* flight
C19_Witness ==
    /\ ProbeSettled
    /\ last.caller = "c1"
    /\ last.call.newDevice = Bool(TRUE)
    /\ last.call.eventWrote.wrote
    /\ last.cmd.script = "/usr/sbin/tts_play.sh"
    /\ call["c2"].op = "play"
    /\ call["c2"].stage = "content"
    /\ call["c2"].newDevice = Bool(FALSE)
    /\ inflight["c2"].script = "ubus call mediaplayer player_play_url"

\* C20: the status starts as idle and is always idle, playing or paused;
\* having left idle it returns to idle only by a playback event whose data
\* is neither "Playing" nor "Paused"; no method that issues a command,
\* getPlaying(true) with any output included, sets it to idle.
C20_IdleOnlyByPlaybackEvent ==
    /\ status \in StatusValues
    /\ last.step = "init" => status = "idle"
    /\ (status = "idle" /\ last.pre # "idle") =>
         /\ LastEventIs("playing")
         /\ LastData \notin {Str(PLAYING), Str(PAUSED)}
    /\ (last.step \in {"call", "await", "return"} /\ last.pre # "idle") =>
         status # "idle"

\* the status query, answered with an output that carries no code, has left
\* the status playing
C20_Witness ==
    /\ SyncReturned
    /\ last.res # Undefined
    /\ last.res.obj.stdout = <<>>
    /\ last.pre = "playing"
    /\ status = "playing"

====
